---- MODULE Spec2Model ----
(***************************************************************************)
(* A model of the derp-network crate (crates/derp-network/src): the frame  *)
(* codec and handshake state machine of protocol.rs, the payload           *)
(* cryptography of crypto.rs, the engine of network.rs (connect,           *)
(* send_packet, the transport callbacks, the reconnect timer) and the      *)
(* Ethernet shim of vm_network.rs.                                         *)
(*                                                                         *)
(* Byte buffers (Vec<u8>, &[u8]) are sequences of numbers in 0..255.       *)
(* Option<T> is a sequence of length 0 (None) or 1 (Some).                 *)
(* DerpResult<T> is a record [ok, kind, msg, val].                         *)
(***************************************************************************)
EXTENDS Integers, Sequences, FiniteSets, TLC

\* ------------------------------------------------------------------------
\* Bounds of the model
\* ------------------------------------------------------------------------

\* the clock readings Instant::now() can return are 0..MaxTime
MaxTime == 1

\* connect is followed until it has created this many WebSockets
MaxConnects == 2

\* in the reconnect specification: until it has created this many WebSockets, with
\* at most MaxOpen of them open at a time
MaxReconnects == 6

MaxOpen == 1

\* send_packet is followed until packets_sent reaches this
MaxSends == 2

\* pings are followed until this many Pong frames have been written
MaxPongs == 1

\* inbound packets are followed until packets_received reaches this
MaxRecv == 1

\* VmNetwork::receive_packet is followed for this many calls
MaxShimCalls == 1

\* send_packet calls VmNetwork makes on the engine
MaxShimSends == 1

\* threads of control that run entry points and callbacks side by side
MaxThreads == 2

\* ------------------------------------------------------------------------
\* Option, DerpResult, bytes
\* ------------------------------------------------------------------------

None == <<>>

Some(x) == <<x>>

IsSome(o) == Len(o) = 1

Unwrap(o) == o[1]

Ok(v) == [ok |-> TRUE, kind |-> "Ok", msg |-> "", val |-> v]

Err(k, m) == [ok |-> FALSE, kind |-> k, msg |-> m, val |-> <<>>]

Repeat(b, n) == [i \in 1..n |-> b]

RECURSIVE SumSeq(_)
SumSeq(s) == IF s = <<>> THEN 0 ELSE s[1] + SumSeq(Tail(s))

\* u32::to_be_bytes
U32ToBe(n) ==
    <<(n \div 16777216) % 256, (n \div 65536) % 256, (n \div 256) % 256, n % 256>>

\* u32::from_be_bytes
U32FromBe(b) == b[1] * 16777216 + b[2] * 65536 + b[3] * 256 + b[4]

\* u16::from_be_bytes
U16FromBe(b) == b[1] * 256 + b[2]

\* ------------------------------------------------------------------------
\* bincode (fixed-width little-endian integers, u64 length prefixes)
\* ------------------------------------------------------------------------

RECURSIVE LeBytes(_, _)
LeBytes(n, width) ==
    IF width = 0 THEN <<>> ELSE <<n % 256>> \o LeBytes(n \div 256, width - 1)

RECURSIVE LeValue(_)
LeValue(b) == IF b = <<>> THEN 0 ELSE b[1] + 256 * LeValue(Tail(b))

BincodeString(s) == LeBytes(Len(s), 8) \o s

RECURSIVE BincodeStrings(_)
BincodeStrings(v) ==
    IF v = <<>> THEN <<>> ELSE BincodeString(v[1]) \o BincodeStrings(Tail(v))

BincodeVecString(v) == LeBytes(Len(v), 8) \o BincodeStrings(v)

\* A reader returns [ok, val, next]: the value read at position pos of b and the
\* position after it, or ok = FALSE when the bytes run out.
ReadFail == [ok |-> FALSE, val |-> <<>>, next |-> 0]

ReadInt(b, pos, width) ==
    IF pos + width - 1 > Len(b) THEN ReadFail
    ELSE [ok |-> TRUE, val |-> LeValue(SubSeq(b, pos, pos + width - 1)),
          next |-> pos + width]

ReadString(b, pos) ==
    LET n == ReadInt(b, pos, 8) IN
    IF ~n.ok THEN ReadFail
    ELSE IF n.next + n.val - 1 > Len(b) THEN ReadFail
    ELSE [ok |-> TRUE, val |-> SubSeq(b, n.next, n.next + n.val - 1),
          next |-> n.next + n.val]

RECURSIVE ReadStrings(_, _, _)
ReadStrings(b, pos, count) ==
    IF count = 0 THEN [ok |-> TRUE, val |-> <<>>, next |-> pos]
    ELSE LET s == ReadString(b, pos) IN
         IF ~s.ok THEN ReadFail
         ELSE LET rest == ReadStrings(b, s.next, count - 1) IN
              IF ~rest.ok THEN ReadFail
              ELSE [ok |-> TRUE, val |-> <<s.val>> \o rest.val, next |-> rest.next]

ReadVecString(b, pos) ==
    LET n == ReadInt(b, pos, 8) IN
    IF ~n.ok THEN ReadFail
    ELSE IF n.val > Len(b) THEN ReadFail
    ELSE ReadStrings(b, n.next, n.val)

\* bincode::serialize(&ClientInfo)
SerializeClientInfo(ci) ==
    BincodeString(ci.version) \o BincodeString(ci.client_id)
    \o BincodeVecString(ci.supported_features) \o LeBytes(ci.max_packet_size, 4)

\* bincode::serialize(&ServerInfo)
SerializeServerInfo(si) ==
    BincodeString(si.version) \o BincodeString(si.server_id)
    \o BincodeVecString(si.supported_versions)
    \o BincodeVecString(si.supported_features)
    \o LeBytes(si.max_packet_size, 4) \o LeBytes(si.keepalive_interval, 4)

\* bincode::deserialize::<ServerInfo>: the fields in declaration order; bytes after
\* the last field are allowed.
DeserializeServerInfo(b) ==
    LET f1 == ReadString(b, 1) IN
    IF ~f1.ok THEN Err("InvalidProtocol", "Invalid server info") ELSE
    LET f2 == ReadString(b, f1.next) IN
    IF ~f2.ok THEN Err("InvalidProtocol", "Invalid server info") ELSE
    LET f3 == ReadVecString(b, f2.next) IN
    IF ~f3.ok THEN Err("InvalidProtocol", "Invalid server info") ELSE
    LET f4 == ReadVecString(b, f3.next) IN
    IF ~f4.ok THEN Err("InvalidProtocol", "Invalid server info") ELSE
    LET f5 == ReadInt(b, f4.next, 4) IN
    IF ~f5.ok THEN Err("InvalidProtocol", "Invalid server info") ELSE
    LET f6 == ReadInt(b, f5.next, 4) IN
    IF ~f6.ok THEN Err("InvalidProtocol", "Invalid server info") ELSE
    Ok([version |-> f1.val, server_id |-> f2.val, supported_versions |-> f3.val,
        supported_features |-> f4.val, max_packet_size |-> f5.val,
        keepalive_interval |-> f6.val])

\* ------------------------------------------------------------------------
\* protocol.rs: FrameType and the frame codec
\* ------------------------------------------------------------------------

ServerKey == 1

ServerInfo == 2

ClientInfo == 3

Ping == 4

Pong == 5

Send == 6

RecvFromPeer == 7

FrameType == {ServerKey, ServerInfo, ClientInfo, Ping, Pong, Send, RecvFromPeer}

\* impl TryFrom<u8> for FrameType
FrameTypeTryFrom(value) ==
    IF value \in FrameType THEN Ok(value)
    ELSE Err("InvalidProtocol", "Invalid frame type")

\* encode_frame compresses payloads longer than this many bytes
CompressionThreshold == 64

\* miniz_oxide compress_to_vec. DEFLATE is modelled by its stored-block form
\* (RFC 1951, 3.2.4): header byte with BFINAL = 1 and BTYPE = 00, LEN and its
\* one's complement NLEN as little-endian u16, then the LEN literal bytes.
compress_to_vec(payload) ==
    <<1>> \o LeBytes(Len(payload), 2) \o LeBytes(65535 - Len(payload), 2) \o payload

\* miniz_oxide decompress_to_vec on a stream of stored blocks starting at pos.
\* A block whose BTYPE is not 00, a LEN/NLEN mismatch and a stream that ends
\* early are errors; bytes after the final block are ignored.
RECURSIVE InflateFrom(_, _)
InflateFrom(b, pos) ==
    IF pos > Len(b) THEN Err("Inflate", "needs more input")
    ELSE IF (b[pos] \div 2) % 4 # 0 THEN Err("Inflate", "not a stored block")
    ELSE IF pos + 4 > Len(b) THEN Err("Inflate", "needs more input")
    ELSE LET len == LeValue(SubSeq(b, pos + 1, pos + 2))
             nlen == LeValue(SubSeq(b, pos + 3, pos + 4))
         IN IF len + nlen # 65535 THEN Err("Inflate", "bad stored block length")
            ELSE IF pos + 4 + len > Len(b) THEN Err("Inflate", "needs more input")
            ELSE LET data == SubSeq(b, pos + 5, pos + 4 + len) IN
                 IF b[pos] % 2 = 1 THEN Ok(data)
                 ELSE LET rest == InflateFrom(b, pos + 5 + len) IN
                      IF rest.ok THEN Ok(data \o rest.val) ELSE rest

decompress_to_vec(b) == InflateFrom(b, 1)

\* a variant of encode_frame that compresses from the threshold on
encode_frame_from_threshold(self, frame_type, payload) ==
    LET compressed_payload ==
            IF self.compression_enabled /\ Len(payload) >= CompressionThreshold
            THEN compress_to_vec(payload)
            ELSE payload
    IN <<frame_type>> \o U32ToBe(Len(compressed_payload)) \o compressed_payload

\* ProtocolState::encode_frame
encode_frame(self, frame_type, payload) ==
    LET compressed_payload ==
            IF self.compression_enabled /\ Len(payload) > CompressionThreshold
            THEN compress_to_vec(payload)
            ELSE payload
    IN <<frame_type>> \o U32ToBe(Len(compressed_payload)) \o compressed_payload

\* The builds of the crate: usize is 32 bits wide on wasm32 and 64 bits on a
\* native target, and integer overflow is checked in a debug build and wraps in a
\* release build.
Builds == [usize_bits : {32, 64}, overflow_checks : BOOLEAN]

\* the wasm32 release build
Wasm32Release == [usize_bits |-> 32, overflow_checks |-> FALSE]

\* payload_len + 5 does not fit 32 bits: the length field is 2^32 - 5 or more
AddExceedsU32(data) ==
    /\ data[2] = 255
    /\ data[3] = 255
    /\ data[4] = 255
    /\ data[5] >= 251

\* ProtocolState::decode_frame in a build of the crate. Where payload_len + 5
\* does not fit usize, a debug build panics at the addition; a release build
\* wraps both payload_len + 5 and 5 + payload_len to a value below 5, passes the
\* length test and panics at the slice data[5..5 + payload_len]. A length field
\* of 2^31 or more that fits exceeds the length of every buffer.
decode_frame_on(data, build) ==
    IF Len(data) < 5 THEN Err("InvalidProtocol", "Frame too short")
    ELSE LET frame_type == FrameTypeTryFrom(data[1]) IN
         IF ~frame_type.ok THEN frame_type
         ELSE IF AddExceedsU32(data) /\ build.usize_bits = 32
         THEN IF build.overflow_checks
              THEN Err("Panic", "attempt to add with overflow")
              ELSE Err("Panic", "slice index starts at 5 but ends before it")
         ELSE IF data[2] >= 128 THEN Err("InvalidProtocol", "Incomplete frame")
         ELSE LET payload_len == U32FromBe(SubSeq(data, 2, 5)) IN
              IF Len(data) - 5 < payload_len    \* data.len() < payload_len + 5
              THEN Err("InvalidProtocol", "Incomplete frame")
              ELSE LET payload == SubSeq(data, 6, 5 + payload_len)
                       inflated == decompress_to_vec(payload)
                       decompressed ==
                           IF Len(payload) > 2 /\ frame_type.val # Ping
                              /\ frame_type.val # Pong
                           THEN IF inflated.ok THEN inflated.val ELSE payload
                           ELSE payload
                   IN Ok([frame_type |-> frame_type.val, payload |-> decompressed])

\* ProtocolState::decode_frame on a buffer whose length field is below 2^32 - 5,
\* where the builds agree
decode_frame(data) == decode_frame_on(data, Wasm32Release)

\* ------------------------------------------------------------------------
\* crypto.rs: CryptoState::encrypt and decrypt
\* ------------------------------------------------------------------------

NonceLen == 12

TagLen == 16

\* The AEAD of the aes_gcm crate, as a stream cipher with a 16-byte tag over the
\* key, the nonce and the ciphertext: every tag byte j weighs ciphertext byte i by
\* i + j, so changing any one byte of the nonce, the ciphertext or the tag makes
\* the tag comparison fail.
KeyStream(key, nonce, i) == (key * 7 + nonce[1] * 3 + i * 11) % 256

RECURSIVE Weighted(_, _, _)
Weighted(ct, i, j) ==
    IF i > Len(ct) THEN 0 ELSE ct[i] * (i + j) + Weighted(ct, i + 1, j)

AeadTag(key, nonce, ct) ==
    [j \in 1..TagLen |->
        (key * (j + 1) + SumSeq(nonce) + Len(ct) + Weighted(ct, 1, j)) % 256]

AeadEncrypt(key, nonce, data) ==
    LET ct == [i \in 1..Len(data) |-> (data[i] + KeyStream(key, nonce, i)) % 256]
    IN ct \o AeadTag(key, nonce, ct)

\* a decryption that strips the tag without comparing it
AeadDecryptUnverified(key, nonce, buf) ==
    IF Len(buf) < TagLen THEN Err("CryptoError", "Decryption failed")
    ELSE LET ct == SubSeq(buf, 1, Len(buf) - TagLen)
         IN Ok([i \in 1..Len(ct) |-> (ct[i] + 256 - KeyStream(key, nonce, i)) % 256])

AeadDecrypt(key, nonce, buf) ==
    IF Len(buf) < TagLen THEN Err("CryptoError", "Decryption failed")
    ELSE LET ct == SubSeq(buf, 1, Len(buf) - TagLen)
             tag == SubSeq(buf, Len(buf) - TagLen + 1, Len(buf))
         IN IF tag # AeadTag(key, nonce, ct)
            THEN Err("CryptoError", "Decryption failed")
            ELSE Ok([i \in 1..Len(ct) |->
                        (ct[i] + 256 - KeyStream(key, nonce, i)) % 256])

\* nonce || ciphertext || tag under key, with a nonce of 7s
AeadNonceAndText(key, data) ==
    Repeat(7, NonceLen) \o AeadEncrypt(key, Repeat(7, NonceLen), data)

\* CryptoState::encrypt, with the nonce generate_nonce drew
encrypt(self, nonce, data) == Ok(nonce \o AeadEncrypt(self.cipher, nonce, data))

\* CryptoState::decrypt
decrypt(self, data) ==
    IF Len(data) < NonceLen THEN Err("CryptoError", "Data too short")
    ELSE AeadDecrypt(self.cipher, SubSeq(data, 1, NonceLen),
                     SubSeq(data, NonceLen + 1, Len(data)))

\* ------------------------------------------------------------------------
\* protocol.rs: ProtocolState, the handshake state machine
\* ------------------------------------------------------------------------

\* enum HandshakeState; Failed carries a reason string
HandshakeState ==
    {"Initial", "AwaitingServerKey", "AwaitingServerInfo", "Complete", "Failed"}

\* feature tags, as their ASCII bytes
FeatCompression == <<99, 111, 109, 112, 114, 101, 115, 115, 105, 111, 110>>

FeatEncryption == <<101, 110, 99, 114, 121, 112, 116, 105, 111, 110>>

FeatIpv6 == <<105, 112, 118, 54>>

\* env!("CARGO_PKG_VERSION"), as ASCII bytes: the version string the crate's
\* manifest fixes at build time, for which "0.1.0" stands
CARGO_PKG_VERSION == <<48, 46, 49, 46, 48>>

\* ClientInfo.max_packet_size
DefaultMaxPacketSize == 16384

Contains(seq, x) == \E i \in 1..Len(seq) : seq[i] = x

\* ProtocolState::new
ProtocolStateNew ==
    [handshake_state |-> "Initial",
     client_info |-> None,
     server_info |-> None,
     last_ping_time |-> None,
     supported_features |-> <<FeatCompression, FeatEncryption, FeatIpv6>>,
     compression_enabled |-> FALSE]

\* a variant of is_connected that holds as soon as the handshake has started
is_connected_started(self) == self.handshake_state # "Initial"

\* ProtocolState::is_connected
is_connected(self) == self.handshake_state = "Complete"

\* a variant of start_handshake without the test of the state
start_handshake_any_state(self, uuid) ==
    LET client_info ==
            [version |-> CARGO_PKG_VERSION,
             client_id |-> uuid,
             supported_features |-> self.supported_features,
             max_packet_size |-> DefaultMaxPacketSize]
        after == [self EXCEPT !.handshake_state = "AwaitingServerKey",
                              !.client_info = Some(client_info)]
    IN [self |-> after,
        res |-> Ok(encode_frame(after, ClientInfo, SerializeClientInfo(client_info)))]

\* ProtocolState::start_handshake, with the UUID Uuid::new_v4 drew. Returns the
\* state after the call and the call's result.
start_handshake(self, uuid) ==
    IF self.handshake_state # "Initial"
    THEN [self |-> self, res |-> Err("InvalidState", "Handshake already started")]
    ELSE LET client_info ==
                 [version |-> CARGO_PKG_VERSION,
                  client_id |-> uuid,
                  supported_features |-> self.supported_features,
                  max_packet_size |-> DefaultMaxPacketSize]
             after == [self EXCEPT !.handshake_state = "AwaitingServerKey",
                                   !.client_info = Some(client_info)]
         IN [self |-> after,
             res |-> Ok(encode_frame(after, ClientInfo,
                                     SerializeClientInfo(client_info)))]

\* the length handle_server_key requires of its payload
ServerKeyLen == 32

\* a variant of handle_server_key that tests the length only
handle_server_key_any_state(self, payload) ==
    IF Len(payload) # ServerKeyLen
    THEN [self |-> self, res |-> Err("InvalidProtocol", "Invalid server key length")]
    ELSE [self |-> [self EXCEPT !.handshake_state = "AwaitingServerInfo"],
          res |-> Ok(<<>>)]

\* a variant of handle_server_key that gives the handshake up on a bad key length
handle_server_key_giving_up(self, payload) ==
    IF self.handshake_state # "AwaitingServerKey"
    THEN [self |-> self, res |-> Err("InvalidState", "Unexpected server key")]
    ELSE IF Len(payload) # ServerKeyLen
    THEN [self |-> [self EXCEPT !.handshake_state = "Failed"],
          res |-> Err("InvalidProtocol", "Invalid server key length")]
    ELSE [self |-> [self EXCEPT !.handshake_state = "AwaitingServerInfo"],
          res |-> Ok(<<>>)]

\* ProtocolState::handle_server_key
handle_server_key(self, payload) ==
    IF self.handshake_state # "AwaitingServerKey"
    THEN [self |-> self, res |-> Err("InvalidState", "Unexpected server key")]
    ELSE IF Len(payload) # ServerKeyLen
    THEN [self |-> self, res |-> Err("InvalidProtocol", "Invalid server key length")]
    ELSE [self |-> [self EXCEPT !.handshake_state = "AwaitingServerInfo"],
          res |-> Ok(<<>>)]

\* a variant of handle_server_info that enables compression whenever it accepts
handle_server_info_compressing(self, payload) ==
    IF self.handshake_state # "AwaitingServerInfo"
    THEN [self |-> self, res |-> Err("InvalidState", "Unexpected server info")]
    ELSE LET parsed == DeserializeServerInfo(payload) IN
         IF ~parsed.ok THEN [self |-> self, res |-> parsed]
         ELSE LET server_info == parsed.val
                  common_features ==
                      SelectSeq(server_info.supported_features,
                                LAMBDA f : Contains(self.supported_features, f))
              IN IF ~Contains(server_info.supported_versions, CARGO_PKG_VERSION)
                 THEN [self |-> self,
                       res |-> Err("InvalidProtocol", "Incompatible server version")]
                 ELSE IF common_features = <<>>
                 THEN [self |-> self,
                       res |-> Err("InvalidProtocol", "No compatible features")]
                 ELSE [self |-> [self EXCEPT
                                    !.compression_enabled = TRUE,
                                    !.server_info = Some(server_info),
                                    !.handshake_state = "Complete"],
                       res |-> Ok(<<>>)]

\* a variant of handle_server_info that also accepts a ServerInfo in Complete
handle_server_info_renegotiating(self, payload) ==
    IF self.handshake_state \notin {"AwaitingServerInfo", "Complete"}
    THEN [self |-> self, res |-> Err("InvalidState", "Unexpected server info")]
    ELSE LET parsed == DeserializeServerInfo(payload) IN
         IF ~parsed.ok THEN [self |-> self, res |-> parsed]
         ELSE LET server_info == parsed.val
                  common_features ==
                      SelectSeq(server_info.supported_features,
                                LAMBDA f : Contains(self.supported_features, f))
              IN IF ~Contains(server_info.supported_versions, CARGO_PKG_VERSION)
                 THEN [self |-> self,
                       res |-> Err("InvalidProtocol", "Incompatible server version")]
                 ELSE IF common_features = <<>>
                 THEN [self |-> self,
                       res |-> Err("InvalidProtocol", "No compatible features")]
                 ELSE [self |-> [self EXCEPT
                                    !.compression_enabled =
                                        Contains(common_features, FeatCompression),
                                    !.server_info = Some(server_info),
                                    !.handshake_state = "Complete"],
                       res |-> Ok(<<>>)]

\* ProtocolState::handle_server_info
handle_server_info(self, payload) ==
    IF self.handshake_state # "AwaitingServerInfo"
    THEN [self |-> self, res |-> Err("InvalidState", "Unexpected server info")]
    ELSE LET parsed == DeserializeServerInfo(payload) IN
         IF ~parsed.ok THEN [self |-> self, res |-> parsed]
         ELSE LET server_info == parsed.val
                  common_features ==
                      SelectSeq(server_info.supported_features,
                                LAMBDA f : Contains(self.supported_features, f))
              IN IF ~Contains(server_info.supported_versions, CARGO_PKG_VERSION)
                 THEN [self |-> self,
                       res |-> Err("InvalidProtocol", "Incompatible server version")]
                 ELSE IF common_features = <<>>
                 THEN [self |-> self,
                       res |-> Err("InvalidProtocol", "No compatible features")]
                 ELSE [self |-> [self EXCEPT
                                    !.compression_enabled =
                                        Contains(common_features, FeatCompression),
                                    !.server_info = Some(server_info),
                                    !.handshake_state = "Complete"],
                       res |-> Ok(<<>>)]

\* ProtocolState::handle_ping, with the reading Instant::now() returned
handle_ping(self, instant) ==
    LET after == [self EXCEPT !.last_ping_time = Some(instant)]
    IN [self |-> after, res |-> encode_frame(after, Pong, <<>>)]

\* ProtocolState::should_send_ping at clock reading instant
should_send_ping(self, instant) ==
    IF IsSome(self.server_info) /\ IsSome(self.last_ping_time)
    THEN instant - Unwrap(self.last_ping_time)
             >= Unwrap(self.server_info).keepalive_interval
    ELSE FALSE

\* ------------------------------------------------------------------------
\* network.rs: NetworkState (the engine), its transports and timers
\* ------------------------------------------------------------------------

MAX_RECONNECT_ATTEMPTS == 5

INITIAL_RECONNECT_DELAY_MS == 1000

\* the largest i32: set_timeout takes the delay as i32
I32Max == 2147483647

\* NetworkStats::default
NetworkStatsDefault ==
    [bytes_received |-> 0, bytes_sent |-> 0, packets_received |-> 0,
     packets_sent |-> 0, reconnect_attempts |-> 0]

VARIABLES
    \* NetworkState
    stats,               \* NetworkStats, shared with the callbacks
    websocket,           \* Option: the index in transports of the engine's WebSocket
    crypto_state,        \* CryptoState: [cipher |-> the AEAD key]
    protocol_state,      \* ProtocolState, shared with the callbacks
    url,                 \* Option<String>
    reconnect_delay_ms,
    \* the browser
    transports,          \* the WebSockets connect created, in creation order
    timers,              \* the set_timeout calls, in call order: the URL to reopen,
                         \* the delay, and whether the timer has fired and opened
                         \* its WebSocket
    now,                 \* the clock Instant::now() reads
    \* VmNetwork and the guest
    shim_received,       \* the data of every VmNetwork::receive_packet call
    guest_received,      \* the arguments of every call to the guest's receive entry
    shim_sent,           \* the data of every send_packet call VmNetwork made
    \* threads of control
    threads,             \* per thread: the entry point or callback it runs, the
                         \* lock operations that run still has to do, and the
                         \* locks it holds in the order it took them
    \* history
    last,                \* the last operation: its name, input and result
    visited,             \* the handshake states entered, in order
    sent_ok,             \* bytes and count of the send_packet calls that returned Ok
    decrypted            \* the plaintexts of the inbound frames that decrypted

engineVars == <<stats, websocket, crypto_state, protocol_state, url, reconnect_delay_ms>>

browserVars == <<transports, timers, now>>

shimVars == <<shim_received, guest_received, shim_sent>>

historyVars == <<last, visited, sent_ok, decrypted>>

vars == <<engineVars, browserVars, shimVars, threads, historyVars>>

\* the handshake states entered so far, after a call that left the state at hs
Visit(hs) == IF hs = visited[Len(visited)] THEN visited ELSE Append(visited, hs)

\* what `last` records of a call: its name, its input and its DerpResult
Call(op, arg, res) ==
    [op |-> op, arg |-> arg, kind |-> res.kind, msg |-> res.msg, val |-> res.val]

\* ------------------------------------------------------------------------
\* Inputs
\* ------------------------------------------------------------------------

\* the AEAD keys CryptoState::new can draw
Keys == {1}

\* the UUIDs Uuid::new_v4 can draw, in their 36-character text form
Uuids == {Repeat(97, 36)}

\* "zstd", a feature tag the client does not support
FeatZstd == <<122, 115, 116, 100>>

\* "0.0.0", a protocol version other than the client's
OtherVersion == <<48, 46, 48, 46, 48>>

MakeServerInfo(versions, features) ==
    [version |-> CARGO_PKG_VERSION,
     server_id |-> <<115>>,
     supported_versions |-> versions,
     supported_features |-> features,
     max_packet_size |-> DefaultMaxPacketSize,
     keepalive_interval |-> 1]

VersionLists == {<<CARGO_PKG_VERSION>>, <<OtherVersion, CARGO_PKG_VERSION>>, <<OtherVersion>>, <<>>}

FeatureLists ==
    {<<FeatCompression, FeatEncryption, FeatIpv6>>, <<FeatEncryption>>,
     <<FeatZstd, FeatCompression>>, <<FeatZstd>>, <<>>}

ServerInfos == {MakeServerInfo(v, f) : v \in VersionLists, f \in FeatureLists}

\* a ServerInfo the client accepts, with and without compression
InfoCompress == MakeServerInfo(<<CARGO_PKG_VERSION>>, <<FeatCompression, FeatEncryption, FeatIpv6>>)

InfoPlain == MakeServerInfo(<<CARGO_PKG_VERSION>>, <<FeatEncryption>>)

\* ServerInfos the client rejects: no common version, no common feature
InfoBadVersion == MakeServerInfo(<<OtherVersion>>, <<FeatCompression, FeatEncryption, FeatIpv6>>)

InfoNoFeature == MakeServerInfo(<<CARGO_PKG_VERSION>>, <<FeatZstd>>)

\* the first n bytes of b
Truncate(b, n) == SubSeq(b, 1, n)

\* payloads handed to handle_server_info: well-formed ones, one cut short, none
ServerInfoPayloads ==
    {SerializeServerInfo(si) : si \in ServerInfos}
    \cup {Truncate(SerializeServerInfo(InfoCompress), 20), <<>>}

\* payloads handed to handle_server_key: 32 bytes, one byte less, one more, none
ServerKeyPayloads ==
    {Repeat(0, ServerKeyLen), Repeat(9, ServerKeyLen), Repeat(0, ServerKeyLen - 1),
     Repeat(0, ServerKeyLen + 1), <<>>}

\* ------------------------------------------------------------------------
\* Initial state: NetworkState::new on a CryptoState::new
\* ------------------------------------------------------------------------

Init ==
    /\ stats = NetworkStatsDefault
    /\ websocket = None
    /\ crypto_state \in [cipher : Keys]
    /\ protocol_state = ProtocolStateNew
    /\ url = None
    /\ reconnect_delay_ms = INITIAL_RECONNECT_DELAY_MS
    /\ transports = <<>>
    /\ timers = <<>>
    /\ now = 0
    /\ shim_received = <<>>
    /\ guest_received = <<>>
    /\ shim_sent = <<>>
    /\ threads = [t \in 1..MaxThreads |-> [entry |-> "idle", todo |-> <<>>, held |-> <<>>]]
    /\ last = Call("new", <<>>, Ok(<<>>))
    /\ visited = <<"Initial">>
    /\ sent_ok = [bytes |-> 0, packets |-> 0]
    /\ decrypted = <<>>

\* time passes
Tick ==
    /\ now < MaxTime
    /\ now' = now + 1
    /\ last' = Call("tick", <<>>, Ok(<<>>))
    /\ UNCHANGED <<engineVars, transports, timers, shimVars, threads, visited, sent_ok, decrypted>>

\* ------------------------------------------------------------------------
\* The handshake state machine driven directly (ProtocolState's public methods)
\* ------------------------------------------------------------------------

fsmFrame ==
    <<stats, websocket, crypto_state, url, reconnect_delay_ms, browserVars, shimVars, threads,
      sent_ok, decrypted>>

FsmStartHandshake ==
    \E uuid \in Uuids :
        LET r == start_handshake(protocol_state, uuid) IN
        /\ protocol_state' = r.self
        /\ last' = Call("start_handshake", uuid, r.res)
        /\ visited' = Visit(r.self.handshake_state)
        /\ UNCHANGED fsmFrame

FsmHandleServerKey ==
    \E payload \in ServerKeyPayloads :
        LET r == handle_server_key(protocol_state, payload) IN
        /\ protocol_state' = r.self
        /\ last' = Call("handle_server_key", payload, r.res)
        /\ visited' = Visit(r.self.handshake_state)
        /\ UNCHANGED fsmFrame

FsmHandleServerInfo ==
    \E payload \in ServerInfoPayloads :
        LET r == handle_server_info(protocol_state, payload) IN
        /\ protocol_state' = r.self
        /\ last' = Call("handle_server_info", payload, r.res)
        /\ visited' = Visit(r.self.handshake_state)
        /\ UNCHANGED fsmFrame

FsmHandlePing ==
    LET r == handle_ping(protocol_state, now) IN
    /\ protocol_state' = r.self
    /\ last' = Call("handle_ping", <<>>, Ok(r.res))
    /\ visited' = Visit(r.self.handshake_state)
    /\ UNCHANGED fsmFrame

\* ProtocolState::should_send_ping, with the time elapsed() measures up to
FsmShouldSendPing ==
    /\ last' = Call("should_send_ping", <<>>,
                    Ok(<<should_send_ping(protocol_state, now)>>))
    /\ UNCHANGED <<protocol_state, visited, fsmFrame>>

NextFSM ==
    \/ FsmStartHandshake
    \/ FsmHandleServerKey
    \/ FsmHandleServerInfo
    \/ FsmHandlePing
    \/ FsmShouldSendPing
    \/ Tick

SpecFSM == Init /\ [][NextFSM]_vars

\* ------------------------------------------------------------------------
\* Inputs of the engine
\* ------------------------------------------------------------------------

\* URLs handed to connect; WebSocket::new rejects one that is no ws:// or wss:// URL
Urls == {"wss://a", "invalid-url"}

\* URLs handed to connect in the reconnect specification
ReconnectUrls == {"wss://a", "wss://b"}

UrlValid(u) == u # "invalid-url"

\* the nonces generate_nonce can draw
Nonces == {Repeat(7, NonceLen)}

\* plaintexts handed to send_packet: one byte, and one whose ciphertext the codec
\* compresses when compression is enabled (40 + 12 + 16 > 64)
Packets == {<<10>>, Repeat(20, 40)}

\* plaintexts peers send
PeerPackets == {<<1>>, <<2, 3>>}

\* a key other than the engine's
ForeignKey == 2

\* a frame as the relay encodes it (no compression)
PeerFrame(frame_type, payload) == encode_frame(ProtocolStateNew, frame_type, payload)

\* buf with the lowest bit of its last byte flipped
FlipLastBit(buf) ==
    [buf EXCEPT ![Len(buf)] = IF @ % 2 = 0 THEN @ + 1 ELSE @ - 1]

\* RecvFromPeer frames whose payload is what encrypt makes of a peer packet
\* under one of the engine's keys
RecvFrameOf ==
    [k \in Keys, p \in PeerPackets |-> PeerFrame(RecvFromPeer, AeadNonceAndText(k, p))]

RecvFrames == {RecvFrameOf[k, p] : k \in Keys, p \in PeerPackets}

\* RecvFromPeer frames whose payload does not decrypt: encrypted under another key,
\* one bit flipped, shorter than a nonce
BadRecvFrames ==
    {PeerFrame(RecvFromPeer, AeadNonceAndText(ForeignKey, <<1>>)),
     PeerFrame(RecvFromPeer, FlipLastBit(AeadNonceAndText(1, <<1>>))),
     PeerFrame(RecvFromPeer, <<7, 7, 7>>)}

\* the frames of a handshake the client accepts
HandshakeFrames ==
    {PeerFrame(ServerKey, Repeat(0, ServerKeyLen)),
     PeerFrame(ServerInfo, SerializeServerInfo(InfoCompress)),
     PeerFrame(ServerInfo, SerializeServerInfo(InfoPlain))}

\* handshake frames the client rejects
BadHandshakeFrames ==
    {PeerFrame(ServerKey, Repeat(0, ServerKeyLen - 1)),
     PeerFrame(ServerInfo, SerializeServerInfo(InfoBadVersion)),
     PeerFrame(ServerInfo, SerializeServerInfo(InfoNoFeature)),
     PeerFrame(ServerInfo, Truncate(SerializeServerInfo(InfoCompress), 20))}

\* frames of the types the message callback ignores
IgnoredFrames == {PeerFrame(Pong, <<>>), PeerFrame(ClientInfo, <<>>), PeerFrame(Send, <<1>>)}

\* buffers decode_frame rejects: shorter than a header, an unknown type byte, a
\* length field beyond the end
UndecodableFrames == {<<>>, <<Ping, 0>>, <<9, 0, 0, 0, 0>>, <<RecvFromPeer, 0, 0, 0, 9, 1>>}

Binary(frames) == {[binary |-> TRUE, data |-> d] : d \in frames}

\* a text message, which arrives as a string and not as an ArrayBuffer
TextMessage == [binary |-> FALSE, data |-> <<104, 105>>]

\* the messages of a session that goes well: handshake, ping, packets
SessionMessages == Binary(HandshakeFrames \cup {PeerFrame(Ping, <<>>)} \cup RecvFrames)

\* the same without the ping
PacketMessages == Binary(HandshakeFrames \cup RecvFrames)

\* every kind of message a WebSocket can deliver
InboundMessages ==
    Binary(HandshakeFrames \cup BadHandshakeFrames \cup {PeerFrame(Ping, <<>>)}
           \cup RecvFrames \cup BadRecvFrames \cup IgnoredFrames \cup UndecodableFrames)
    \cup {TextMessage}

\* ------------------------------------------------------------------------
\* network.rs: the engine's operations and the callbacks connect installs
\* ------------------------------------------------------------------------

\* a WebSocket connect created: its URL, the reconnect delay its close callback
\* captured, whether its close event has fired, and the messages written to it
NewTransport(u, delay) ==
    [url |-> u, reconnect_delay |-> delay, closed |-> FALSE, sent |-> <<>>]

\* WebSocket::send_with_u8_array on transport t: the browser takes the message or
\* throws
WsSend(ts, t, data, accepted) ==
    IF accepted THEN [ts EXCEPT ![t].sent = Append(@, data)] ELSE ts

\* NetworkState::send_raw
send_raw(ws, ts, data, accepted) ==
    IF IsSome(ws)
    THEN IF accepted
         THEN [transports |-> WsSend(ts, Unwrap(ws), data, TRUE), res |-> Ok(<<>>)]
         ELSE [transports |-> ts, res |-> Err("WebSocketError", "Failed to send data")]
    ELSE [transports |-> ts, res |-> Err("InvalidState", "WebSocket not initialized")]

\* a variant of the update that assigns where the code adds
StatsAfterSendAssign(st, data) ==
    [st EXCEPT !.bytes_sent = Len(data), !.packets_sent = 1]

\* a variant of the update that counts the ciphertext in place of the plaintext
StatsAfterSendCiphertext(st, data) ==
    [st EXCEPT !.bytes_sent = @ + Len(data) + NonceLen + TagLen, !.packets_sent = @ + 1]

\* send_packet's update of the counters after a successful send
StatsAfterSend(st, data) ==
    [st EXCEPT !.bytes_sent = @ + Len(data), !.packets_sent = @ + 1]

\* a variant of the update that counts the payload in place of the plaintext
StatsAfterRecvCiphertext(st, plaintext) ==
    [st EXCEPT !.bytes_received = @ + Len(plaintext) + NonceLen + TagLen,
               !.packets_received = @ + 1]

\* the message callback's update of the counters after a successful decryption
StatsAfterRecv(st, plaintext) ==
    [st EXCEPT !.bytes_received = @ + Len(plaintext), !.packets_received = @ + 1]

\* a variant of the test that lets the counter reach the cap and go one beyond
BelowCapInclusive(st) == st.reconnect_attempts <= MAX_RECONNECT_ATTEMPTS

\* the close callback's test: stats.reconnect_attempts < MAX_RECONNECT_ATTEMPTS
BelowCap(st) == st.reconnect_attempts < MAX_RECONNECT_ATTEMPTS

\* a variant of the delay that shifts by the counter before its increment
ReconnectDelayBeforeIncrement(reconnect_delay, attempts) ==
    reconnect_delay * (2 ^ (attempts - 1))

\* the close callback's delay: reconnect_delay * (1 << reconnect_attempts), on
\* the incremented counter
ReconnectDelay(reconnect_delay, attempts) == reconnect_delay * (2 ^ attempts)

\* the WebSockets connect has created
Connected == 1..Len(transports)

\* the Pong frames written so far
PongsWritten ==
    Cardinality({<<t, i>> \in (1..Len(transports)) \X (1..MaxSends + MaxPongs + 2) :
                    /\ i <= Len(transports[t].sent)
                    /\ Len(transports[t].sent[i]) > 0
                    /\ transports[t].sent[i][1] = Pong})

\* the WebSockets connect has created whose close event has not fired
Open == {t \in Connected : ~transports[t].closed}

\* NetworkState::connect (and connect_with_retry) on a URL of urls, while connect
\* has created fewer than limit WebSockets and fewer than open of them are open
ConnectTo(urls, limit, open) ==
    \E u \in urls :
        /\ Cardinality(Connected) < limit
        /\ Cardinality(Open) < open
        /\ url' = Some(u)
        /\ IF ~UrlValid(u)
           THEN /\ last' = Call("connect", <<u>>,
                                Err("WebSocketError", "Failed to create WebSocket"))
                /\ UNCHANGED <<websocket, protocol_state, transports, visited>>
           ELSE \E uuid \in Uuids :
                LET ws == Len(transports) + 1
                    opened == Append(transports,
                                     NewTransport(u, reconnect_delay_ms))
                    hs == start_handshake(protocol_state, uuid)
                IN /\ websocket' = Some(ws)
                   /\ protocol_state' = hs.self
                   /\ visited' = Visit(hs.self.handshake_state)
                   /\ IF hs.res.ok
                      THEN \E accepted \in BOOLEAN :
                           LET raw == send_raw(Some(ws), opened, hs.res.val, accepted)
                           IN /\ transports' = raw.transports
                              /\ last' = Call("connect", <<u>>, raw.res)
                      ELSE /\ transports' = opened
                           /\ last' = Call("connect", <<u>>, hs.res)
        /\ UNCHANGED <<stats, crypto_state, reconnect_delay_ms, timers, now, shimVars, threads,
                       sent_ok, decrypted>>

\* DerpError's Display
DerpErrorToString(res) ==
    CASE res.kind = "InvalidState" -> "Invalid state: " \o res.msg
      [] res.kind = "InvalidProtocol" -> "Protocol error: " \o res.msg
      [] res.kind = "WebSocketError" -> "WebSocket error: " \o res.msg
      [] res.kind = "CryptoError" -> "Cryptography error: " \o res.msg
      [] res.kind = "SerializationError" -> "Serialization error: " \o res.msg

\* .map_err(|e| JsValue::from_str(&e.to_string()))
MapErrJsValue(res) ==
    IF res.ok THEN res ELSE Err("JsValue", DerpErrorToString(res))

\* the result as the caller sees it: VmNetwork maps the error, the engine's own
\* callers get the DerpResult
ResultTo(op, res) == IF op = "shim_send_packet" THEN MapErrJsValue(res) ELSE res

\* NetworkState::send_packet on plaintext data, reached through the entry point
\* op with input arg
SendPacketAs(op, arg, data) ==
    IF ~is_connected(protocol_state)
    THEN /\ last' = Call(op, arg, ResultTo(op, Err("InvalidState", "Not connected")))
         /\ UNCHANGED <<engineVars, browserVars, visited, sent_ok, decrypted>>
    ELSE \E nonce \in Nonces, accepted \in BOOLEAN :
         LET encrypted == encrypt(crypto_state, nonce, data)
             frame == encode_frame(protocol_state, Send, encrypted.val)
             raw == send_raw(websocket, transports, frame, accepted)
         IN /\ stats.packets_sent < MaxSends
            /\ transports' = raw.transports
            /\ last' = Call(op, arg, ResultTo(op, raw.res))
            /\ stats' = IF raw.res.ok THEN StatsAfterSend(stats, data) ELSE stats
            /\ sent_ok' = IF last'.kind = "Ok"
                          THEN [bytes |-> sent_ok.bytes + Len(data),
                                packets |-> sent_ok.packets + 1]
                          ELSE sent_ok
            /\ UNCHANGED <<websocket, crypto_state, protocol_state, url,
                           reconnect_delay_ms, timers, now, visited, decrypted>>

\* NetworkState::send_packet on a plaintext of packets
SendPacketOf(packets) ==
    \E data \in packets :
        /\ SendPacketAs("send_packet", <<data>>, data)
        /\ UNCHANGED <<shimVars, threads>>

\* NetworkState::get_stats
GetStats ==
    /\ last' = Call("get_stats", <<>>, Ok(stats))
    /\ UNCHANGED <<engineVars, browserVars, shimVars, threads, visited, sent_ok, decrypted>>

\* onmessage_callback of transport t, on a message of messages
OnMessageFrom(messages) ==
    \E t \in Connected, m \in messages :
        LET decoded == decode_frame(m.data)
            frame_type == decoded.val.frame_type
            payload == decoded.val.payload
        IN
        /\ ~transports[t].closed
        /\ last' = Call("on_message", <<t, m>>, Ok(<<>>))
        /\ UNCHANGED <<websocket, crypto_state, url, reconnect_delay_ms, timers, now,
                       shimVars, threads, sent_ok>>
        /\ IF ~m.binary \/ ~decoded.ok
           THEN UNCHANGED <<stats, protocol_state, transports, visited, decrypted>>
           ELSE CASE frame_type = ServerKey ->
                       LET r == handle_server_key(protocol_state, payload) IN
                       /\ protocol_state' = r.self
                       /\ visited' = Visit(r.self.handshake_state)
                       /\ UNCHANGED <<stats, transports, decrypted>>
                  [] frame_type = ServerInfo ->
                       LET r == handle_server_info(protocol_state, payload) IN
                       /\ protocol_state' = r.self
                       /\ visited' = Visit(r.self.handshake_state)
                       /\ IF r.res.ok
                          THEN \E accepted \in BOOLEAN :
                               transports' = WsSend(transports, t, r.res.val, accepted)
                          ELSE UNCHANGED transports
                       /\ UNCHANGED <<stats, decrypted>>
                  [] frame_type = Ping ->
                       LET r == handle_ping(protocol_state, now) IN
                       /\ PongsWritten < MaxPongs
                       /\ protocol_state' = r.self
                       /\ \E accepted \in BOOLEAN :
                              transports' = WsSend(transports, t, r.res, accepted)
                       /\ UNCHANGED <<stats, visited, decrypted>>
                  [] frame_type = RecvFromPeer ->
                       LET plain == decrypt(crypto_state, payload) IN
                       /\ IF plain.ok
                          THEN /\ stats.packets_received < MaxRecv
                               /\ stats' = StatsAfterRecv(stats, plain.val)
                               /\ decrypted' = Append(decrypted, plain.val)
                          ELSE UNCHANGED <<stats, decrypted>>
                       /\ UNCHANGED <<protocol_state, transports, visited>>
                  [] OTHER ->
                       UNCHANGED <<stats, protocol_state, transports, visited,
                                   decrypted>>

\* close_callback of transport t
OnClose ==
    \E t \in Connected :
        /\ ~transports[t].closed
        /\ transports' = [transports EXCEPT ![t].closed = TRUE]
        /\ IF BelowCap(stats)
           THEN LET after == [stats EXCEPT !.reconnect_attempts = @ + 1]
                    delay == ReconnectDelay(transports[t].reconnect_delay,
                                            after.reconnect_attempts)
                IN /\ stats' = after
                   /\ timers' = Append(timers, [url |-> transports[t].url,
                                                delay |-> delay, fired |-> FALSE,
                                                closed |-> FALSE])
           ELSE UNCHANGED <<stats, timers>>
        /\ last' = Call("on_close", <<t>>, Ok(<<>>))
        /\ UNCHANGED <<websocket, crypto_state, protocol_state, url,
                       reconnect_delay_ms, now, shimVars, threads, visited, sent_ok, decrypted>>

\* reconnect_callback: timer i fires and opens a WebSocket on the timer's URL, on
\* which it installs no callback and which it drops. A timer is set later and
\* with a longer delay than the ones before it, so timers fire in the order set.
TimerFire ==
    \E i \in 1..Len(timers) :
        /\ ~timers[i].fired
        /\ \A j \in 1..(i - 1) : timers[j].fired
        /\ timers' = [timers EXCEPT ![i].fired = TRUE]
        /\ last' = Call("reconnect_callback", <<i>>, Ok(<<>>))
        /\ UNCHANGED <<engineVars, transports, now, shimVars, threads, visited, sent_ok,
                       decrypted>>

\* The WebSocket reconnect_callback opened for timer i closes. The callback set
\* no onclose on it, so the engine runs nothing.
ReopenedClose ==
    \E i \in 1..Len(timers) :
        /\ timers[i].fired
        /\ ~timers[i].closed
        /\ timers' = [timers EXCEPT ![i].closed = TRUE]
        /\ last' = Call("reopened_close", <<i>>, Ok(<<>>))
        /\ UNCHANGED <<engineVars, transports, now, shimVars, threads, visited, sent_ok,
                       decrypted>>

\* ------------------------------------------------------------------------
\* vm_network.rs: VmNetwork (the Ethernet shim)
\* ------------------------------------------------------------------------

\* VmNetwork.mtu
VmMtu == 1500

\* payloads the embedder hands to receive_packet: peers' plaintexts, one of
\* exactly the MTU and one a byte longer
ShimPayloads == PeerPackets \cup {Repeat(0, VmMtu), Repeat(0, VmMtu + 1)}

\* the source address receive_packet writes into the frame it builds
VirtualInterfaceMac == <<82, 84, 0, 18, 52, 86>>

\* VmNetwork::receive_packet, called by the embedder with a payload of payloads.
\* The frame it builds is not handed on: the guest's entry point is reached by
\* js_sys::eval of a call without arguments, which succeeds or throws.
ShimReceivePacketOf(payloads) ==
    \E data \in payloads, evaluated \in BOOLEAN :
        /\ Len(shim_received) < MaxShimCalls
        /\ shim_received' = Append(shim_received, data)
        /\ IF Len(data) > VmMtu
           THEN /\ last' = Call("receive_packet", <<data>>,
                                Err("JsValue", "Packet too large"))
                /\ UNCHANGED guest_received
           ELSE IF evaluated
           THEN /\ last' = Call("receive_packet", <<data>>, Ok(<<>>))
                /\ guest_received' = Append(guest_received, <<>>)
           ELSE /\ last' = Call("receive_packet", <<data>>,
                                Err("JsValue", "Failed to call v86"))
                /\ UNCHANGED guest_received
        /\ UNCHANGED <<engineVars, browserVars, shim_sent, threads, visited, sent_ok,
                       decrypted>>

\* VmNetwork.mac_address, the address the shim is constructed with
LocalMac == <<82, 84, 0, 18, 52, 86>>

\* [0xFF; 6]
Broadcast == Repeat(255, 6)

\* an Ethernet frame: destination, source, EtherType, payload
EthernetFrame(dst, ethertype, payload) ==
    dst \o <<2, 0, 0, 0, 0, 1>> \o ethertype \o payload

\* frames the guest sends: IPv4 and ARP to the shim and to everyone, with and
\* without a payload, frames for another station, frames of other EtherTypes,
\* and frames cut short
ShimFrames ==
    {EthernetFrame(LocalMac, <<8, 0>>, <<1, 2, 3>>),
     EthernetFrame(Broadcast, <<8, 6>>, <<9>>),
     EthernetFrame(LocalMac, <<8, 6>>, <<>>),
     EthernetFrame(<<82, 84, 0, 18, 52, 87>>, <<8, 0>>, <<1>>),
     EthernetFrame(<<255, 255, 255, 255, 255, 254>>, <<8, 6>>, <<1>>),
     EthernetFrame(LocalMac, <<18, 52>>, <<1>>),
     EthernetFrame(Broadcast, <<134, 221>>, <<1>>),
     EthernetFrame(LocalMac, <<8, 1>>, <<1>>),
     EthernetFrame(LocalMac, <<0, 6>>, <<1>>),
     SubSeq(EthernetFrame(LocalMac, <<8, 0>>, <<>>), 1, 13),
     <<>>}

\* &data[13..]
EthernetPayloadFromType(data) == SubSeq(data, 14, Len(data))

\* &data[14..]
EthernetPayload(data) == SubSeq(data, 15, Len(data))

\* VmNetwork::send_packet, called by the guest with a frame of frames
ShimSendPacketOf(frames) ==
    \E data \in frames :
        IF Len(data) < 14
        THEN /\ last' = Call("shim_send_packet", <<data>>,
                             Err("JsValue", "Invalid ethernet frame"))
             /\ UNCHANGED <<engineVars, browserVars, shimVars, threads, visited, sent_ok,
                            decrypted>>
        ELSE IF SubSeq(data, 1, 6) # LocalMac /\ SubSeq(data, 1, 6) # Broadcast
        THEN /\ last' = Call("shim_send_packet", <<data>>, Ok(<<>>))
             /\ UNCHANGED <<engineVars, browserVars, shimVars, threads, visited, sent_ok,
                            decrypted>>
        ELSE IF U16FromBe(<<data[13], data[14]>>) \in {2048, 2054}
        THEN /\ Len(shim_sent) < MaxShimSends
             /\ shim_sent' = Append(shim_sent, EthernetPayload(data))
             /\ SendPacketAs("shim_send_packet", <<data>>, EthernetPayload(data))
             /\ UNCHANGED <<shim_received, guest_received, threads>>
        ELSE /\ last' = Call("shim_send_packet", <<data>>, Ok(<<>>))
             /\ UNCHANGED <<engineVars, browserVars, shimVars, threads, visited, sent_ok,
                            decrypted>>

\* everything a direct call of a pure function leaves alone
codecFrame ==
    <<engineVars, browserVars, shimVars, threads, visited, sent_ok, decrypted>>

\* ------------------------------------------------------------------------
\* CryptoState called directly
\* ------------------------------------------------------------------------

\* messages handed to encrypt: none, one byte, "Hello, World!", and twenty 255s
CryptoMessages ==
    {<<>>, <<1>>, <<72, 101, 108, 108, 111, 44, 32, 87, 111, 114, 108, 100, 33>>,
     Repeat(255, 20)}

\* nonces generate_nonce can draw for a direct call
CryptoNonces == {Repeat(7, NonceLen), [i \in 1..NonceLen |-> i]}

\* buffers handed to decrypt that no encrypt made: empty, one byte, 11 bytes,
\* "invalid data" (12 bytes), a nonce and 15 bytes, a nonce and 16 bytes
CryptoBuffers ==
    {<<>>, <<1>>, Repeat(0, NonceLen - 1),
     <<105, 110, 118, 97, 108, 105, 100, 32, 100, 97, 116, 97>>,
     Repeat(0, NonceLen + TagLen - 1), Repeat(0, NonceLen + TagLen)}

\* buf with bit b of byte i flipped
FlipBit(buf, i, b) ==
    [buf EXCEPT ![i] = IF (@ \div (2 ^ b)) % 2 = 0 THEN @ + 2 ^ b ELSE @ - 2 ^ b]

\* CryptoState::encrypt on a message
CryptoEncrypt ==
    \E data \in CryptoMessages, nonce \in CryptoNonces :
        /\ last' = Call("encrypt", <<data>>, encrypt(crypto_state, nonce, data))
        /\ UNCHANGED codecFrame

\* CryptoState::decrypt on what encrypt just returned
CryptoDecryptEncrypted ==
    /\ last.op = "encrypt"
    /\ last' = Call("decrypt", <<last.val>>, decrypt(crypto_state, last.val))
    /\ UNCHANGED codecFrame

\* CryptoState::decrypt on what encrypt just returned with one bit changed
CryptoDecryptTampered ==
    /\ last.op = "encrypt"
    /\ \E i \in 1..Len(last.val), b \in 0..7 :
           last' = Call("decrypt", <<FlipBit(last.val, i, b)>>,
                        decrypt(crypto_state, FlipBit(last.val, i, b)))
    /\ UNCHANGED codecFrame

\* CryptoState::decrypt on a buffer
CryptoDecrypt ==
    \E data \in CryptoBuffers :
        /\ last' = Call("decrypt", <<data>>, decrypt(crypto_state, data))
        /\ UNCHANGED codecFrame

NextCrypto ==
    \/ CryptoEncrypt
    \/ CryptoDecryptEncrypted
    \/ CryptoDecryptTampered
    \/ CryptoDecrypt

SpecCrypto == Init /\ [][NextCrypto]_vars

\* ------------------------------------------------------------------------
\* The frame codec called directly
\* ------------------------------------------------------------------------

\* a raw DEFLATE stream of one final stored block holding the byte 65
DeflateLookalike == <<1, 1, 0, 254, 255, 65>>

\* payloads handed to encode_frame: none, up to three bytes, one that is a DEFLATE
\* stream, and ones at, just above and above the compression threshold
CodecPayloads ==
    {<<>>, <<1>>, <<1, 2>>, <<1, 2, 3>>, DeflateLookalike, Repeat(0, 64),
     Repeat(0, 65), Repeat(7, 70)}

\* buffers handed to decode_frame: shorter than a header; a type byte outside
\* 1..7; a length field beyond the bytes that follow, up to 2^32 - 1; and frames
\* that are whole
CodecBuffers ==
    {<<>>, <<1>>, <<1, 0, 0, 0>>,
     <<0, 0, 0, 0, 0>>, <<8, 0, 0, 0, 0>>, <<255, 0, 0, 0, 1, 1>>,
     <<1, 0, 0, 0, 1>>, <<6, 0, 0, 0, 9, 1>>, <<7, 0, 1, 0, 0, 1, 2>>,
     <<1, 127, 255, 255, 255>>, <<1, 128, 0, 0, 0, 1>>,
     <<1, 255, 255, 255, 250>>, <<1, 255, 255, 255, 251>>,
     <<6, 255, 255, 255, 255, 1, 2>>,
     <<1, 0, 0, 0, 0>>, <<4, 0, 0, 0, 1, 9>>, <<6, 0, 0, 0, 1, 9, 9>>}

\* a ProtocolState with compression negotiated or not
ProtocolStateWith(compression) ==
    [ProtocolStateNew EXCEPT !.compression_enabled = compression]

\* ProtocolState::encode_frame on a frame type and a payload
CodecEncode ==
    \E compression \in BOOLEAN, frame_type \in FrameType, payload \in CodecPayloads :
        /\ last' = Call("encode_frame", <<compression, frame_type, payload>>,
                        Ok(encode_frame(ProtocolStateWith(compression), frame_type,
                                        payload)))
        /\ UNCHANGED codecFrame

\* ProtocolState::decode_frame on the frame just encoded
CodecDecodeEncoded ==
    \E build \in Builds :
        /\ last.op = "encode_frame"
        /\ last' = Call("decode_frame", <<last.val, build>>,
                        decode_frame_on(last.val, build))
        /\ UNCHANGED codecFrame

\* ProtocolState::decode_frame on a buffer
CodecDecode ==
    \E data \in CodecBuffers, build \in Builds :
        /\ last' = Call("decode_frame", <<data, build>>, decode_frame_on(data, build))
        /\ UNCHANGED codecFrame

NextCodec ==
    \/ CodecEncode
    \/ CodecDecodeEncoded
    \/ CodecDecode

SpecCodec == Init /\ [][NextCodec]_vars

\* The engine sending: connects, the frames of a handshake the client accepts,
\* sends and statistics.
Next ==
    \/ ConnectTo(Urls, MaxConnects, MaxConnects)
    \/ SendPacketOf(Packets)
    \/ GetStats
    \/ OnMessageFrom(Binary(HandshakeFrames))

Spec == Init /\ [][Next]_vars

\* The engine receiving: one connect, and every kind of inbound message.
NextInbound ==
    \/ ConnectTo(Urls, 1, 1)
    \/ GetStats
    \/ OnMessageFrom(InboundMessages)

SpecInbound == Init /\ [][NextInbound]_vars

\* The engine beside the Ethernet shim: a connect, the messages of a session that
\* goes well, and the embedder's calls of the shim's receive path.
NextShim ==
    \/ ConnectTo(Urls, 1, 1)
    \/ OnMessageFrom(SessionMessages)
    \/ ShimReceivePacketOf(ShimPayloads)

SpecShim == Init /\ [][NextShim]_vars

\* The engine under the Ethernet shim: a connect, the handshake frames, and the
\* guest's calls of the shim's send path.
NextShimOut ==
    \/ ConnectTo(Urls, 1, 1)
    \/ OnMessageFrom(Binary(HandshakeFrames))
    \/ ShimSendPacketOf(ShimFrames)

SpecShimOut == Init /\ [][NextShimOut]_vars

\* One connect and everything that can follow it: the handshake and packets of a
\* session that goes well, sends, statistics, the close event, the reconnect timer and the
\* close of the WebSocket the timer opened.
NextSession ==
    \/ ConnectTo(ReconnectUrls, 1, 1)
    \/ SendPacketOf(Packets)
    \/ GetStats
    \/ OnMessageFrom(PacketMessages)
    \/ OnClose
    \/ TimerFire
    \/ ReopenedClose

\* Every WebSocket closes in the end and every timer set fires.
SpecSession ==
    /\ Init
    /\ [][NextSession]_vars
    /\ WF_vars(OnClose)
    /\ WF_vars(TimerFire)
    /\ WF_vars(ReopenedClose)

\* The engine reconnecting: connects, close events and the reconnect timers.
NextReconnect ==
    \/ ConnectTo(ReconnectUrls, MaxReconnects, MaxOpen)
    \/ GetStats
    \/ OnClose
    \/ TimerFire

SpecReconnect == Init /\ [][NextReconnect]_vars

\* ------------------------------------------------------------------------
\* The mutexes: VmNetwork.network, NetworkState.protocol_state, NetworkState.stats
\* ------------------------------------------------------------------------

Threads == 1..MaxThreads

\* a thread that runs nothing
Idle == [entry |-> "idle", todo |-> <<>>, held |-> <<>>]

\* Mutex::lock on mutex l, and the drop of the guard it returned
Acquire(l) == <<"lock", l>>

Release(l) == <<"unlock", l>>

\* NetworkState::get_stats: the guard is a temporary of the one statement
GetStatsPaths == {<<Acquire("stats"), Release("stats")>>}

\* a close callback that also takes the handshake state while it holds the stats
OnClosePathsResetting ==
    {<<Acquire("stats"), Acquire("protocol_state"), Release("protocol_state"),
       Release("stats")>>}

\* close_callback: the stats guard lives to the end of the closure
OnClosePaths == {<<Acquire("stats"), Release("stats")>>}

\* connect_with_retry: nothing is locked when WebSocket::new fails; otherwise the
\* handshake state is locked for the block around start_handshake
ConnectPaths == {<<>>, <<Acquire("protocol_state"), Release("protocol_state")>>}

\* NetworkState::send_packet: the guard of the is_connected test is dropped with
\* the condition, the guard of encode_frame with its statement, and the stats
\* guard lives to the end. The call returns after the first when not connected,
\* after the second when encrypt or send_raw fails.
SendPacketPaths ==
    {<<Acquire("protocol_state"), Release("protocol_state")>>,
     <<Acquire("protocol_state"), Release("protocol_state"),
       Acquire("protocol_state"), Release("protocol_state")>>,
     <<Acquire("protocol_state"), Release("protocol_state"),
       Acquire("protocol_state"), Release("protocol_state"),
       Acquire("stats"), Release("stats")>>}

\* VmNetwork::send_packet: a frame it drops locks nothing; one it forwards runs
\* NetworkState::send_packet under the guard of network
ShimSendPacketPaths ==
    {<<>>} \cup {<<Acquire("network")>> \o path \o <<Release("network")>> :
                    path \in SendPacketPaths}

\* onmessage_callback: a text message or an undecodable frame locks nothing; a
\* decoded frame is handled under the handshake state's guard, and a RecvFromPeer
\* frame that decrypts takes the stats inside it
OnMessagePaths ==
    {<<>>,
     <<Acquire("protocol_state"), Release("protocol_state")>>,
     <<Acquire("protocol_state"), Acquire("stats"), Release("stats"),
       Release("protocol_state")>>}

\* the entry points and callbacks, and the lock operations of each of their runs
EntryPaths ==
    [get_stats |-> GetStatsPaths,
     on_close |-> OnClosePaths,
     connect |-> ConnectPaths,
     send_packet |-> SendPacketPaths,
     shim_send_packet |-> ShimSendPacketPaths,
     on_message |-> OnMessagePaths]

\* the threads that hold mutex l
Holders(l) == {t \in Threads : Contains(threads[t].held, l)}

\* everything a lock operation leaves alone
lockFrame ==
    <<engineVars, browserVars, shimVars, visited, sent_ok, decrypted>>

\* a thread enters an entry point or a callback
ThreadCall ==
    \E t \in Threads, entry \in DOMAIN EntryPaths :
        \E path \in EntryPaths[entry] :
            /\ threads[t] = Idle
            /\ threads' = [threads EXCEPT
                              ![t] = [entry |-> entry, todo |-> path, held |-> <<>>]]
            /\ last' = Call(entry, <<t>>, Ok(<<>>))
            /\ UNCHANGED lockFrame

\* Mutex::lock returns once no thread holds the mutex
ThreadLock ==
    \E t \in Threads :
        /\ threads[t].todo # <<>>
        /\ Head(threads[t].todo)[1] = "lock"
        /\ LET l == Head(threads[t].todo)[2] IN
           /\ Holders(l) = {}
           /\ threads' = [threads EXCEPT ![t].todo = Tail(@),
                                         ![t].held = Append(@, l)]
           /\ last' = Call("lock", <<t, l>>, Ok(<<>>))
        /\ UNCHANGED lockFrame

\* a guard is dropped
ThreadUnlock ==
    \E t \in Threads :
        /\ threads[t].todo # <<>>
        /\ Head(threads[t].todo)[1] = "unlock"
        /\ LET l == Head(threads[t].todo)[2] IN
           /\ threads' = [threads EXCEPT
                             ![t].todo = Tail(@),
                             ![t].held = SelectSeq(@, LAMBDA h : h # l)]
           /\ last' = Call("unlock", <<t, l>>, Ok(<<>>))
        /\ UNCHANGED lockFrame

\* the entry point or callback returns
ThreadReturn ==
    \E t \in Threads :
        /\ threads[t].entry # "idle"
        /\ threads[t].todo = <<>>
        /\ threads' = [threads EXCEPT ![t] = Idle]
        /\ last' = Call("return", <<t>>, Ok(<<>>))
        /\ UNCHANGED lockFrame

NextLocks ==
    \/ ThreadCall
    \/ ThreadLock
    \/ ThreadUnlock
    \/ ThreadReturn

SpecLocks == Init /\ [][NextLocks]_vars

\* ------------------------------------------------------------------------
\* Properties
\* ------------------------------------------------------------------------

\* C1: a send_packet call made while the handshake state is not Complete returns
\* InvalidState("Not connected"), writes nothing to any transport and leaves the
\* statistics as they were.
C1_SendBeforeComplete ==
    [][(last'.op = "send_packet" /\ protocol_state.handshake_state # "Complete")
       => /\ last'.kind = "InvalidState"
          /\ last'.msg = "Not connected"
          /\ transports' = transports
          /\ stats' = stats]_vars

\* a send_packet call was refused in the middle of the handshake
C1_Witness ==
    /\ last.op = "send_packet"
    /\ last.kind = "InvalidState"
    /\ last.msg = "Not connected"
    /\ protocol_state.handshake_state = "AwaitingServerInfo"
    /\ Len(transports) > 0

\* C2: bytes_sent is the sum of the plaintext lengths of the send_packet calls
\* that returned Ok and packets_sent is their number; a call that returned an
\* error has changed neither.
C2_SentCounters ==
    /\ stats.bytes_sent = sent_ok.bytes
    /\ stats.packets_sent = sent_ok.packets

\* two plaintexts of different lengths were sent, and the last call failed at the
\* transport after one that went through
C2_Witness ==
    /\ last.op = "send_packet"
    /\ last.kind = "WebSocketError"
    /\ stats.packets_sent = 1
    /\ stats.bytes_sent = 40

\* the path of a handshake
HandshakePath == <<"Initial", "AwaitingServerKey", "AwaitingServerInfo", "Complete">>

\* the client's version is among the server's and they share a feature
Compatible(si) ==
    /\ \E i \in 1..Len(si.supported_versions) : si.supported_versions[i] = CARGO_PKG_VERSION
    /\ \E i \in 1..Len(si.supported_features) :
           si.supported_features[i] \in {FeatCompression, FeatEncryption, FeatIpv6}

\* the steps of the handshake: each of the three calls succeeds from its state and
\* moves to the next, and the state changes in no other way
C3_Step ==
    LET hs == protocol_state.handshake_state
        hs2 == protocol_state'.handshake_state
    IN /\ (last'.op = "start_handshake" /\ hs = "Initial")
          => (last'.kind = "Ok" /\ hs2 = "AwaitingServerKey")
       /\ (last'.op = "handle_server_key" /\ hs = "AwaitingServerKey"
           /\ Len(last'.arg) = 32)
          => (last'.kind = "Ok" /\ hs2 = "AwaitingServerInfo")
       /\ (/\ last'.op = "handle_server_info"
           /\ hs = "AwaitingServerInfo"
           /\ \E si \in ServerInfos :
                  Compatible(si) /\ last'.arg = SerializeServerInfo(si))
          => (last'.kind = "Ok" /\ hs2 = "Complete")
       /\ hs2 # hs
          => /\ last'.kind = "Ok"
             /\ <<hs, last'.op, hs2>> \in
                    {<<"Initial", "start_handshake", "AwaitingServerKey">>,
                     <<"AwaitingServerKey", "handle_server_key", "AwaitingServerInfo">>,
                     <<"AwaitingServerInfo", "handle_server_info", "Complete">>}

\* C3: a handshake visits Initial, AwaitingServerKey, AwaitingServerInfo and
\* Complete in this order, each of start_handshake, handle_server_key (32 bytes)
\* and handle_server_info (compatible) returning Ok from its state, and Complete
\* is reached by no shorter or differently ordered sequence of calls.
C3_HandshakeOrder ==
    /\ [](visited = SubSeq(HandshakePath, 1, Len(visited)))
    /\ [][C3_Step]_vars

\* the handshake has completed
C3_Witness ==
    /\ protocol_state.handshake_state = "Complete"
    /\ visited = HandshakePath
    /\ last.op = "handle_server_info"
    /\ last.kind = "Ok"

\* C4: start_handshake outside Initial, handle_server_key outside
\* AwaitingServerKey and handle_server_info outside AwaitingServerInfo return
\* InvalidState and leave handshake_state, compression_enabled and server_info
\* as they were.
C4_OffTableRejected ==
    [][(\/ last'.op = "start_handshake"
           /\ protocol_state.handshake_state # "Initial"
        \/ last'.op = "handle_server_key"
           /\ protocol_state.handshake_state # "AwaitingServerKey"
        \/ last'.op = "handle_server_info"
           /\ protocol_state.handshake_state # "AwaitingServerInfo")
       => /\ last'.kind = "InvalidState"
          /\ protocol_state'.handshake_state = protocol_state.handshake_state
          /\ protocol_state'.compression_enabled = protocol_state.compression_enabled
          /\ protocol_state'.server_info = protocol_state.server_info]_vars

\* start_handshake was refused after the handshake had completed with compression
\* negotiated and the ServerInfo stored
C4_Witness ==
    /\ last.op = "start_handshake"
    /\ last.kind = "InvalidState"
    /\ protocol_state.handshake_state = "Complete"
    /\ protocol_state.compression_enabled
    /\ IsSome(protocol_state.server_info)

\* C5: a ServerInfo that handle_server_info rejects in AwaitingServerInfo for its
\* versions or its features returns InvalidProtocol and moves the state to
\* Failed, which no later call leaves.
C5_RejectedInfoFails ==
    /\ [][(/\ last'.op = "handle_server_info"
           /\ protocol_state.handshake_state = "AwaitingServerInfo"
           /\ \E si \in ServerInfos :
                  ~Compatible(si) /\ last'.arg = SerializeServerInfo(si))
          => /\ last'.kind = "InvalidProtocol"
             /\ protocol_state'.handshake_state = "Failed"]_vars
    /\ [][protocol_state.handshake_state = "Failed"
          => protocol_state'.handshake_state = "Failed"]_vars

\* the frame type of a message written to a transport; 0 for the empty message
WrittenType(message) == IF Len(message) = 0 THEN 0 ELSE message[1]

\* C6: on every transport a ClientInfo frame is written before any Send frame,
\* and no Send frame is written to a transport to which no ClientInfo has been
\* written.
C6_ClientInfoBeforeSend ==
    \A t \in Connected :
        \A i \in 1..Len(transports[t].sent) :
            WrittenType(transports[t].sent[i]) = Send
            => \E j \in 1..(i - 1) : WrittenType(transports[t].sent[j]) = ClientInfo

\* C7: an inbound RecvFromPeer frame whose payload decrypts adds the length of
\* the plaintext to bytes_received and one to packets_received; one whose payload
\* does not decrypt changes neither, and no other inbound message does.
C7_ReceivedCounters ==
    [][last'.op = "on_message"
       => LET m == last'.arg[2] IN
          /\ \A p \in PeerPackets :
                 m = [binary |-> TRUE, data |-> RecvFrameOf[crypto_state.cipher, p]]
                 => /\ stats'.bytes_received = stats.bytes_received + Len(p)
                    /\ stats'.packets_received = stats.packets_received + 1
          /\ m \notin Binary(RecvFrames)
             => /\ stats'.bytes_received = stats.bytes_received
                /\ stats'.packets_received = stats.packets_received]_vars

\* a peer's two-byte packet was received and counted after the handshake
C7_Witness ==
    /\ last.op = "on_message"
    /\ last.arg[2] \in Binary(RecvFrames)
    /\ protocol_state.handshake_state = "Complete"
    /\ stats.packets_received = 1
    /\ stats.bytes_received = 2

\* the frame type of an inbound message that decodes
InboundType(m) == m.data[1]

\* an inbound message that does not decode, or whose frame is out of order in
\* handshake state hs
OutOfOrder(m, hs) ==
    \/ m \in Binary(UndecodableFrames)
    \/ /\ m \in Binary(HandshakeFrames \cup BadHandshakeFrames \cup RecvFrames
                       \cup BadRecvFrames)
       /\ \/ InboundType(m) = ServerKey /\ hs # "AwaitingServerKey"
          \/ InboundType(m) = ServerInfo /\ hs # "AwaitingServerInfo"
          \/ InboundType(m) = RecvFromPeer /\ hs # "Complete"

\* C8: an inbound frame that does not decode, a ServerKey outside
\* AwaitingServerKey, a ServerInfo outside AwaitingServerInfo and a RecvFromPeer
\* before Complete are dropped: the handshake state, the statistics and the
\* transports stay as they were.
C8_OutOfOrderDropped ==
    [][(last'.op = "on_message"
        /\ OutOfOrder(last'.arg[2], protocol_state.handshake_state))
       => /\ protocol_state' = protocol_state
          /\ stats' = stats
          /\ transports' = transports]_vars

\* C9: the plaintext of every RecvFromPeer frame that decrypts is handed to the
\* Ethernet shim's receive path once, in the order of arrival.
C9_DecryptedSurfaced ==
    [][decrypted' # decrypted
       => shim_received' = Append(shim_received, decrypted'[Len(decrypted')])]_vars

\* the close events handled so far
Closed == {t \in Connected : transports[t].closed}

\* a close event handled below the cap: the counter goes up by one and a reopen
\* of the transport's URL is scheduled after 1000 * 2^n ms, n the new counter
C10_Step ==
    (last'.op = "on_close" /\ stats.reconnect_attempts < 5)
    => LET n == stats.reconnect_attempts + 1
           t == last'.arg[1]
       IN /\ stats'.reconnect_attempts = n
          /\ timers' = Append(timers, [url |-> transports[t].url,
                                       delay |-> 1000 * (2 ^ n),
                                       fired |-> FALSE,
                                       closed |-> FALSE])
          /\ 1000 * (2 ^ n) <= I32Max

\* C10: the n-th close event handled while reconnect_attempts is below 5 makes
\* the counter n and schedules a reopen of the same URL after 1000 * 2^n ms, the
\* first close giving 1 and 2000 ms; the delay overflows no 32-bit integer.
C10_ReconnectBackoff ==
    /\ [](Cardinality(Closed) <= 5 => stats.reconnect_attempts = Cardinality(Closed))
    /\ [][C10_Step]_vars

\* five close events were handled, the first scheduled after 2000 ms and the
\* fifth after 32000 ms
C10_Witness ==
    /\ last.op = "on_close"
    /\ stats.reconnect_attempts = 5
    /\ Len(timers) = 5
    /\ timers[1].delay = 2000
    /\ timers[5].delay = 32000
    /\ timers[5].url = transports[last.arg[1]].url

\* a close event handled at the cap: no reopen is scheduled and no counter moves
C11_Step ==
    (last'.op = "on_close" /\ stats.reconnect_attempts = 5)
    => (timers' = timers /\ stats' = stats)

\* C11: reconnect_attempts never exceeds 5, the number of reopens ever scheduled
\* equals reconnect_attempts, and a close event arriving at reconnect_attempts = 5
\* schedules no reopen and changes no counter, however many connects and close
\* events there are.
C11_ReconnectCap ==
    /\ [](stats.reconnect_attempts <= 5 /\ Len(timers) = stats.reconnect_attempts)
    /\ [][C11_Step]_vars

\* a sixth close event was handled after five reopens had been scheduled
C11_Witness ==
    /\ last.op = "on_close"
    /\ Cardinality(Closed) = 6
    /\ stats.reconnect_attempts = 5
    /\ Len(timers) = 5

\* C12: when every WebSocket opened or reopened closes in the end, one connect
\* leads to five scheduled reopens: reconnect_attempts reaches 5 and five timers
\* have been set.
C12_FiveReopens ==
    (Len(transports) = 1) ~> (stats.reconnect_attempts = 5 /\ Len(timers) = 5)

\* C13: when a reconnect timer fires and reopens the transport, the handshake
\* state is Initial again, so that is_connected() is false until a new handshake
\* completes, and the five counters keep their values.
C13_ReconnectResetsHandshake ==
    [][last'.op = "reconnect_callback"
       => /\ protocol_state'.handshake_state = "Initial"
          /\ ~is_connected(protocol_state')
          /\ stats' = stats]_vars

\* no counter of st2 is below its value in st1
CountersNotBelow(st1, st2) ==
    /\ st2.bytes_sent >= st1.bytes_sent
    /\ st2.bytes_received >= st1.bytes_received
    /\ st2.packets_sent >= st1.packets_sent
    /\ st2.packets_received >= st1.packets_received
    /\ st2.reconnect_attempts >= st1.reconnect_attempts

\* C14: none of the five counters ever decreases, whatever the step (an
\* operation, a callback, a failed operation, a reconnect), and get_stats leaves
\* them as they are.
C14_CountersMonotonic ==
    [][/\ CountersNotBelow(stats, stats')
       /\ last'.op = "get_stats" => (stats' = stats /\ last'.val = stats)]_vars

\* statistics were read after packets went both ways, the transport closed and
\* the reconnect timer fired
C14_Witness ==
    /\ last.op = "get_stats"
    /\ stats.packets_sent = 2
    /\ stats.bytes_sent = 41
    /\ stats.packets_received = 1
    /\ stats.reconnect_attempts = 1
    /\ Len(timers) = 1
    /\ timers[1].fired

\* a send_packet call made directly after a connect that returned Ok
SendRightAfterConnect ==
    /\ last.op = "connect"
    /\ last.kind = "Ok"
    /\ last'.op = "send_packet"

\* C15: a send_packet(p) call made directly after a connect that
\* returned Ok, no inbound frame having been processed, returns Ok, and the
\* statistics then show bytes_sent = len(p) and packets_sent = 1.
C15_SendAfterConnectOk ==
    [][SendRightAfterConnect
       => /\ last'.kind = "Ok"
          /\ stats'.bytes_sent = Len(last'.arg[1])
          /\ stats'.packets_sent = 1]_vars

\* C16: a connect call that fails at the transport (the WebSocket cannot be
\* created, or the ClientInfo frame cannot be written) leaves the handshake state
\* at Initial, so that a later connect can succeed.
C16_FailedConnectRetryable ==
    [][(last'.op = "connect" /\ last'.kind = "WebSocketError")
       => protocol_state'.handshake_state = "Initial"]_vars

\* C17: with compression disabled, decoding the encoding of a frame type and a
\* payload gives back that frame type and that payload, for every frame type and
\* every payload, a payload that is a DEFLATE stream included.
C17_CodecRoundTrip ==
    [][(/\ last.op = "encode_frame"
        /\ ~last.arg[1]
        /\ last'.op = "decode_frame"
        /\ last'.arg[1] = last.val)
       => /\ last'.kind = "Ok"
          /\ last'.val = [frame_type |-> last.arg[2], payload |-> last.arg[3]]]_vars

\* the big-endian length field of an encoded frame
LengthField(wire) == ((wire[2] * 256 + wire[3]) * 256 + wire[4]) * 256 + wire[5]

\* the bytes of an encoded frame after its header
OnWire(wire) == SubSeq(wire, 6, Len(wire))

\* C18: encode_frame compresses the payload exactly when compression is enabled
\* and the payload is longer than 64 bytes: otherwise the bytes after the 5-byte
\* header are the payload itself, and in every case the length field is the
\* number of bytes after the header.
C18_CompressionThreshold ==
    last.op = "encode_frame"
    => LET compression == last.arg[1]
           payload == last.arg[3]
           wire == last.val
       IN /\ Len(wire) >= 5
          /\ wire[1] = last.arg[2]
          /\ LengthField(wire) = Len(OnWire(wire))
          /\ IF compression /\ Len(payload) > 64
             THEN /\ OnWire(wire) # payload
                  /\ decompress_to_vec(OnWire(wire)) = Ok(payload)
             ELSE OnWire(wire) = payload

\* a payload of 65 bytes was encoded with compression enabled and went out
\* compressed
C18_Witness ==
    /\ last.op = "encode_frame"
    /\ last.arg[1]
    /\ Len(last.arg[3]) = 65
    /\ OnWire(last.val) # last.arg[3]

\* a buffer shorter than a header, or with a type byte outside 1..7, or whose
\* length field (its high and its low 16 bits taken apart) is more than the
\* bytes after the header
Malformed(data) ==
    \/ Len(data) < 5
    \/ data[1] \notin 1..7
    \/ data[2] * 256 + data[3] > 0
    \/ data[4] * 256 + data[5] > Len(data) - 5

\* C19: decode_frame returns an InvalidProtocol error, and neither panics nor
\* wraps, for every buffer shorter than 5 bytes, with a type byte outside 1..7, or
\* with a length field beyond the bytes after the header, for every value of the
\* length field up to 2^32 - 1, the values for which length + 5 exceeds the
\* machine word included.
C19_DecodeRejects ==
    (last.op = "decode_frame" /\ Malformed(last.arg[1]))
    => last.kind = "InvalidProtocol"

\* C20: VmNetwork::send_packet answers a frame shorter than 14 bytes with an
\* error; a frame whose destination is neither the local MAC nor
\* FF:FF:FF:FF:FF:FF, or whose EtherType is neither 0x0800 nor 0x0806, with
\* success and no send_packet call on the engine; and for every other frame it
\* calls the engine's send_packet once, on the bytes from offset 14 to the end.
C20_Step ==
    last'.op = "shim_send_packet" =>
        LET frame == last'.arg[1]
            forUs == \/ \A i \in 1..6 : frame[i] = LocalMac[i]
                     \/ \A i \in 1..6 : frame[i] = 255
            handled == frame[13] = 8 /\ frame[14] \in {0, 6}
        IN  IF Len(frame) < 14
            THEN /\ last'.kind # "Ok"
                 /\ UNCHANGED <<shim_sent, stats, transports>>
            ELSE IF ~forUs \/ ~handled
            THEN /\ last'.kind = "Ok"
                 /\ UNCHANGED <<shim_sent, stats, transports>>
            ELSE shim_sent' = Append(shim_sent,
                                     [i \in 1..(Len(frame) - 14) |-> frame[i + 14]])

C20_ShimOutbound == [][C20_Step]_vars

\* a frame for the shim was forwarded and written to the transport
C20_Witness ==
    /\ last.op = "shim_send_packet"
    /\ last.kind = "Ok"
    /\ Len(last.arg[1]) > 14
    /\ shim_sent = <<<<1, 2, 3>>>>
    /\ stats.packets_sent = 1

\* a well-formed frame for the shim's own MAC with EtherType 0x0800
OwnIpv4Frame(frame) ==
    /\ Len(frame) >= 14
    /\ \A i \in 1..6 : frame[i] = LocalMac[i]
    /\ frame[13] = 8 /\ frame[14] = 0

\* C21: VmNetwork::send_packet on a well-formed frame for the shim's own MAC with
\* EtherType 0x0800 returns success when the engine was constructed and connect
\* was never called.
C21_Step ==
    /\ last'.op = "shim_send_packet"
    /\ OwnIpv4Frame(last'.arg[1])
    /\ Len(transports) = 0
    /\ protocol_state.handshake_state = "Initial"
    => last'.kind = "Ok"

C21_SendOnFreshEngine == [][C21_Step]_vars

\* C22: VmNetwork::receive_packet rejects a payload longer than the MTU with an
\* error and hands nothing to the guest; for a payload of at most 1500 bytes the
\* guest's receive entry is invoked once with the frame local MAC, virtual
\* interface MAC, 08 00, payload.
C22_Step ==
    last'.op = "receive_packet" =>
        LET data == last'.arg[1]
        IN  IF Len(data) > 1500
            THEN last'.kind # "Ok" /\ guest_received' = guest_received
            ELSE guest_received' =
                     Append(guest_received,
                            <<LocalMac \o VirtualInterfaceMac \o <<8, 0>> \o data>>)

C22_ShimInbound == [][C22_Step]_vars

\* the number of bits in which two bytes differ
RECURSIVE BitsApart(_, _)
BitsApart(x, y) ==
    IF x = 0 /\ y = 0 THEN 0
    ELSE (IF x % 2 = y % 2 THEN 0 ELSE 1) + BitsApart(x \div 2, y \div 2)

\* RECURSIVE over the bytes of two buffers of one length
RECURSIVE BufferBitsApart(_, _, _)
BufferBitsApart(a, b, i) ==
    IF i > Len(a) THEN 0 ELSE BitsApart(a[i], b[i]) + BufferBitsApart(a, b, i + 1)

\* C23: for one CryptoState, decrypt returns the message encrypt was given;
\* decrypt of a buffer shorter than 12 bytes, or of an encrypt output with a bit
\* changed, returns CryptoError and no plaintext; neither call changes the
\* CryptoState.
C23_Step ==
    /\ last'.op \in {"encrypt", "decrypt"} => crypto_state' = crypto_state
    /\ (last'.op = "decrypt" /\ Len(last'.arg[1]) < 12)
       => (last'.kind = "CryptoError" /\ last'.val = <<>>)
    /\ (last.op = "encrypt" /\ last'.op = "decrypt"
        /\ Len(last'.arg[1]) = Len(last.val))
       => LET apart == BufferBitsApart(last'.arg[1], last.val, 1)
          IN  /\ apart = 0 => (last'.kind = "Ok" /\ last'.val = last.arg[1])
              /\ apart >= 1 => (last'.kind = "CryptoError" /\ last'.val = <<>>)

C23_CryptoRoundTrip == [][C23_Step]_vars

\* decrypt refused an encrypt output of a one-byte message whose first
\* ciphertext bit was flipped
C23_Witness ==
    /\ last.op = "decrypt"
    /\ last.kind = "CryptoError"
    /\ last.arg[1] = FlipBit(encrypt(crypto_state, Repeat(7, NonceLen), <<1>>).val,
                             NonceLen + 1, 0)

\* C24: in AwaitingServerKey, handle_server_key with a payload whose length is not
\* 32 returns InvalidProtocol and leaves the state AwaitingServerKey, and a
\* handle_server_key with a 32-byte payload after it succeeds and moves to
\* AwaitingServerInfo.
C24_Step ==
    /\ (/\ protocol_state.handshake_state = "AwaitingServerKey"
        /\ last'.op = "handle_server_key"
        /\ Len(last'.arg) # 32)
       => (last'.kind = "InvalidProtocol" /\ protocol_state' = protocol_state)
    /\ (/\ last.op = "handle_server_key"
        /\ last.kind = "InvalidProtocol"
        /\ last'.op = "handle_server_key"
        /\ Len(last'.arg) = 32)
       => (/\ last'.kind = "Ok"
           /\ protocol_state'.handshake_state = "AwaitingServerInfo")

C24_BadKeyLengthRetryable == [][C24_Step]_vars

\* a key of the wrong length was just refused in AwaitingServerKey
C24_Witness ==
    /\ last.op = "handle_server_key"
    /\ last.kind = "InvalidProtocol"
    /\ Len(last.arg) # 32
    /\ protocol_state.handshake_state = "AwaitingServerKey"

\* C25: a ping is accepted only in Complete, where a Pong frame with an empty
\* payload (05 00 00 00 00) is emitted and the handshake state stays; in every
\* other state a ping is an InvalidState event and no Pong frame reaches the
\* transport.
C25_Step ==
    (last'.op = "on_message" /\ last'.arg[2] = [binary |-> TRUE, data |-> <<Ping, 0, 0, 0, 0>>])
    => LET t == last'.arg[1] IN
       IF protocol_state.handshake_state = "Complete"
       THEN /\ protocol_state'.handshake_state = "Complete"
            /\ \/ transports' = transports
               \/ transports' = [transports EXCEPT
                                    ![t].sent = Append(@, <<5, 0, 0, 0, 0>>)]
       ELSE transports' = transports

C25_PingOnlyInComplete == [][C25_Step]_vars

\* C26: handling an inbound ServerKey or ServerInfo frame, accepted or rejected,
\* writes no message to the transport, not even one of length zero.
C26_Step ==
    (/\ last'.op = "on_message"
     /\ last'.arg[2] \in Binary(HandshakeFrames \cup BadHandshakeFrames)
     /\ InboundType(last'.arg[2]) \in {ServerKey, ServerInfo})
    => transports' = transports

C26_HandshakeFramesWriteNothing == [][C26_Step]_vars

\* C27: when handle_server_info moves the handshake to Complete,
\* compression_enabled becomes true exactly when "compression" is in both the
\* server's feature list and the client's {compression, encryption, ipv6}, and
\* the accepted ServerInfo is cached; a rejected handle_server_info changes
\* neither compression_enabled nor the cached server_info.
C27_Step ==
    last'.op = "handle_server_info" =>
        /\ (last'.kind = "Ok" /\ protocol_state'.handshake_state = "Complete")
           => \E si \in ServerInfos :
                  /\ SerializeServerInfo(si) = last'.arg
                  /\ protocol_state'.server_info = Some(si)
                  /\ protocol_state'.compression_enabled
                         = (\E i \in 1..Len(si.supported_features) :
                                si.supported_features[i] = FeatCompression)
        /\ last'.kind # "Ok"
           => /\ protocol_state'.compression_enabled = protocol_state.compression_enabled
              /\ protocol_state'.server_info = protocol_state.server_info

C27_CompressionNegotiated == [][C27_Step]_vars

\* a ServerInfo without the compression feature was accepted and cached
C27_Witness ==
    /\ last.op = "handle_server_info"
    /\ last.kind = "Ok"
    /\ protocol_state.handshake_state = "Complete"
    /\ ~protocol_state.compression_enabled
    /\ protocol_state.server_info = Some(InfoPlain)

\* C28: should_send_ping is false in every state before Complete; in Complete it
\* is false while less than keepalive_interval seconds have passed since the
\* last ping handled, and true once keepalive_interval seconds have passed in
\* Complete with no ping handled in them, also when no ping was ever handled.
C28_Step ==
    last'.op = "should_send_ping" =>
        /\ protocol_state.handshake_state # "Complete" => last'.val = <<FALSE>>
        /\ (/\ protocol_state.handshake_state = "Complete"
            /\ IsSome(protocol_state.last_ping_time)
            /\ now - Unwrap(protocol_state.last_ping_time)
                   < Unwrap(protocol_state.server_info).keepalive_interval)
           => last'.val = <<FALSE>>
        /\ (/\ protocol_state.handshake_state = "Complete"
            /\ last.op = "tick"
            /\ Unwrap(protocol_state.server_info).keepalive_interval = 1)
           => last'.val = <<TRUE>>

C28_KeepaliveDue == [][C28_Step]_vars

\* the handshake has completed and its outcome is fixed
C29_Inv ==
    /\ is_connected(protocol_state) <=> protocol_state.handshake_state = "Complete"
    /\ protocol_state.handshake_state = "Complete" <=> IsSome(protocol_state.server_info)
    /\ protocol_state.compression_enabled => protocol_state.handshake_state = "Complete"

C29_Step ==
    protocol_state.handshake_state = "Complete"
    => /\ protocol_state'.handshake_state = "Complete"
       /\ protocol_state'.compression_enabled = protocol_state.compression_enabled
       /\ protocol_state'.server_info = protocol_state.server_info

\* C29: in every reachable state is_connected() holds iff the handshake state is
\* Complete iff a server_info is cached, and compression_enabled holds only in
\* Complete; once Complete is reached, no operation and no inbound frame changes
\* the handshake state, compression_enabled or the cached server_info.
C29_CompleteIsStable == []C29_Inv /\ [][C29_Step]_vars

\* a ServerKey frame was handled after the handshake had completed
C29_Witness ==
    /\ last.op = "on_message"
    /\ last.arg[2] \in Binary(HandshakeFrames)
    /\ InboundType(last.arg[2]) = ServerKey
    /\ protocol_state.handshake_state = "Complete"
    /\ IsSome(protocol_state.server_info)

C30_Step ==
    (last'.op = "connect" /\ last'.kind # "Ok")
    => /\ websocket' = websocket
       /\ Len(transports') = Len(transports)

\* C30: at most one transport with message and close callbacks installed is
\* attached to the engine at any time, and a connect that returns an error
\* neither creates another live transport nor replaces the engine's transport
\* handle.
C30_OneLiveTransport == [](Cardinality(Open) <= 1) /\ [][C30_Step]_vars

\* the order in which the mutexes are to be taken
LockRank(l) ==
    CASE l = "network" -> 1
      [] l = "protocol_state" -> 2
      [] l = "stats" -> 3

\* thread t waits for a mutex another thread, or t itself, holds
Waits(t) ==
    /\ threads[t].todo # <<>>
    /\ Head(threads[t].todo)[1] = "lock"
    /\ Holders(Head(threads[t].todo)[2]) # {}

\* every thread of S waits for a mutex a thread of S holds
Deadlocked(S) ==
    \A t \in S : Waits(t) /\ Holders(Head(threads[t].todo)[2]) \subseteq S

\* C31: every thread takes the mutexes in the order network, protocol_state,
\* stats, none takes protocol_state while it holds stats or takes a mutex it
\* holds, no mutex has two holders, and no set of threads running send_packet,
\* get_stats, connect and the message and close callbacks waits on itself.
C31_LockOrder ==
    /\ \A t \in Threads :
           \A i, j \in 1..Len(threads[t].held) :
               i < j => LockRank(threads[t].held[i]) < LockRank(threads[t].held[j])
    /\ \A l \in {"network", "protocol_state", "stats"} : Cardinality(Holders(l)) <= 1
    /\ \A S \in SUBSET Threads : S # {} => ~Deadlocked(S)

\* one thread holds the handshake state and the stats in the message callback
\* while another waits for one of them
C31_Witness ==
    \E t, u \in Threads :
        /\ t # u
        /\ threads[t].entry = "on_message"
        /\ threads[t].held = <<"protocol_state", "stats">>
        /\ Waits(u)

====
